---- MODULE Spec2Model ----
(***************************************************************************)
(* Model of the Welkom integration: the remote client with its memoized    *)
(* catalogs (client.py), the coordinator's setup and refresh cycle          *)
(* (coordinator.py), and the entry setup that drives them (__init__.py).    *)
(*                                                                         *)
(* Text values (display names, states) are tuples of one-character          *)
(* strings, so that concatenation and case folding are computed.            *)
(* An optional value (Python's `X | None`) is None or Some(x).              *)
(***************************************************************************)
EXTENDS Integers, Sequences, FiniteSets, TLC

None == <<>>
Some(v) == <<v>>
Val(o) == o[1]

\* Bounds of the model.
MaxConns == 3
MaxTicks == 3
MaxZones == 2

(***************************************************************************)
(* Domain values (models.py)                                               *)
(***************************************************************************)

\* homeassistant.const.STATE_HOME, as imported by coordinator.py.
STATE_HOME == <<"h", "o", "m", "e">>

\* models.Home: id and display_name (the fields the engine reads).
Home(id, display_name) == [id |-> id, display_name |-> display_name]

\* models.Room: id and display_name.
Room(id, display_name) == [id |-> id, display_name |-> display_name]

\* models.Person: id and display_name.
Person(id, display_name) == [id |-> id, display_name |-> display_name]

\* HomeEq, comparing every field as a model without __eq__ would.
HomeEqAllFields(a, b) == a = b

\* Home.__eq__: two homes are equal iff their ids are.
HomeEq(a, b) == a.id = b.id

Villa == Home("h1", <<"V", "i", "l", "l", "a">>)
Cabin == Home("h2", <<"C", "a", "b", "i", "n">>)
\* A home value with the id of Cabin and another display name, as a
\* connection may carry it: the primary home itself when Cabin is primary,
\* another home when Villa is.
Loft == Home("h2", <<"L", "o", "f", "t">>)
Den == Room("r1", <<"D", "e", "n">>)
Ann == Person("p1", <<"A", "n", "n">>)
Bob == Person("p2", <<"B", "o", "b">>)

\* models.ConnectedPerson: known flag, person, optional home and room.
ConnectedPerson(known, person, home, room) ==
    [known |-> known, person |-> person, home |-> home, room |-> room]

\* The connections the remote service may report.
ConnectedPeople ==
    { ConnectedPerson(k, p, h, r) :
        k \in BOOLEAN, p \in {Ann, Bob},
        h \in {None, Some(Loft)}, r \in {None, Some(Den)} }

RECURSIVE SeqsUpTo(_, _)
\* All sequences over S of length at most n.
SeqsUpTo(S, n) ==
    IF n = 0 THEN {<<>>}
    ELSE LET shorter == SeqsUpTo(S, n - 1)
         IN shorter \cup { Append(s, x) : s \in { t \in shorter : Len(t) = n - 1 }, x \in S }

\* The home catalogs the remote service may report (GET /api/homes), and
\* the configured home ids (CONF_HOME_ID; absent, empty, or an id).
HomeCatalogs == {<<>>, <<Villa>>, <<Villa, Cabin>>}
HomeIdOptions == {None, Some(""), Some("h1"), Some("h2"), Some("h9")}

\* The people catalogs (GET /api/people).
PeopleCatalogs == {<<>>, <<Ann, Bob>>}

(***************************************************************************)
(* Dictionaries in insertion order, as the catalogs are kept                *)
(***************************************************************************)

\* dict keys of {x.id: x for x in xs}, for xs with distinct ids.
Keys(d) == [i \in 1..Len(d) |-> d[i].id]
HasKey(d, id) == \E i \in 1..Len(d) : d[i].id = id
Get(d, id) == d[CHOOSE i \in 1..Len(d) : d[i].id = id]

(***************************************************************************)
(* Primary-home resolution (WelkomCoordinator.home, WelkomClient.home)      *)
(***************************************************************************)

\* Python truthiness of `home_id: str | None`.
Truthy(home_id) == home_id # None /\ Val(home_id) # ""

\* raise ValueError(f"... Available homes: {', '.join(homes.keys())}")
ValueError(text, available) ==
    [ok |-> FALSE, home |-> None,
     error |-> Some([kind |-> "ValueError", text |-> text, available |-> available])]

\* Any other exception: of the transport, of the HTTP status, of the
\* validation, or the cancellation.
Raised(kind) == [kind |-> kind, text |-> "", available |-> <<>>]

Resolved(home) == [ok |-> TRUE, home |-> Some(home), error |-> None]

\* ResolveHome, taking the first home when several are there and none is
\* configured.
ResolveHomeFirst(homes, home_id) ==
    IF Truthy(home_id)
    THEN IF ~HasKey(homes, Val(home_id))
         THEN ValueError("not found", Keys(homes))
         ELSE Resolved(Get(homes, Val(home_id)))
    ELSE IF Len(homes) >= 1
         THEN Resolved(homes[1])
         ELSE ValueError("multiple homes", Keys(homes))

\* The body run when the memo is unset: homes is the fetched catalog.
ResolveHome(homes, home_id) ==
    IF Truthy(home_id)
    THEN IF ~HasKey(homes, Val(home_id))
         THEN ValueError("not found", Keys(homes))
         ELSE Resolved(Get(homes, Val(home_id)))
    ELSE IF Len(homes) = 1
         THEN Resolved(homes[1])
         ELSE ValueError("multiple homes", Keys(homes))

(***************************************************************************)
(* Zones (WelkomCoordinator._zone_lat_longs)                                *)
(***************************************************************************)

\* The capital letters and, at the same positions, the small ones.
Capitals ==
    << "A", "B", "C", "D", "E", "F", "G", "H", "I", "J", "K", "L", "M",
       "N", "O", "P", "Q", "R", "S", "T", "U", "V", "W", "X", "Y", "Z" >>
Smalls ==
    << "a", "b", "c", "d", "e", "f", "g", "h", "i", "j", "k", "l", "m",
       "n", "o", "p", "q", "r", "s", "t", "u", "v", "w", "x", "y", "z" >>
FoldTable ==
    [c \in { Capitals[i] : i \in 1..Len(Capitals) } |->
        Smalls[CHOOSE i \in 1..Len(Capitals) : Capitals[i] = c]]

Lower(c) == IF c \in DOMAIN FoldTable THEN FoldTable[c] ELSE c

\* str.casefold, on texts of ASCII letters, digits and punctuation.
CaseFold(s) == [i \in 1..Len(s) |-> Lower(s[i])]

\* A zone entity of the host: entity id, name, state, coordinates.
Zone(entity_id, name, state, latitude, longitude) ==
    [entity_id |-> entity_id, name |-> name, state |-> state,
     latitude |-> latitude, longitude |-> longitude]

\* The zone states the host may hold.
ZoneStates ==
    { <<>>,
      << Zone("zone.home", <<"H", "o", "m", "e">>, "0", Some(1), Some(2)),
         Zone("zone.den", <<"D", "E", "N">>, "0", Some(3), Some(4)) >> }

\* The zones a host may have: the home zone under its default name and
\* under another, zones that are unavailable, without a latitude, on the
\* equator, on the prime meridian, and two zones of one name.
ZoneSamples ==
    { Zone("zone.home", <<"H", "o", "m", "e">>, "0", Some(1), Some(2)),
      Zone("zone.home", <<"C", "a", "s", "a">>, "0", Some(1), Some(2)),
      Zone("zone.den", <<"D", "E", "N">>, "0", Some(3), Some(4)),
      Zone("zone.den", <<"D", "e", "n">>, "unavailable", Some(3), Some(4)),
      Zone("zone.pier", <<"P", "i", "e", "r">>, "0", None, Some(4)),
      Zone("zone.quito", <<"Q", "u", "i", "t", "o">>, "0", Some(0), Some(5)),
      Zone("zone.kew", <<"K", "e", "w">>, "0", Some(6), Some(0)),
      Zone("zone.den_2", <<"d", "e", "n">>, "0", Some(7), Some(8)) }

\* The zone states of a host with at most MaxZones zones: no entity id twice.
ZoneLists ==
    { zs \in SeqsUpTo(ZoneSamples, MaxZones) :
        \A i, j \in 1..Len(zs) : i # j => zs[i].entity_id # zs[j].entity_id }

RECURSIVE ZoneLatLongsFrom(_, _)
ZoneLatLongsFrom(zones, result) ==
    IF zones = <<>> THEN result
    ELSE LET zone == Head(zones)
             lat == zone.latitude
             lon == zone.longitude
             zone_name == IF zone.entity_id = "home" THEN STATE_HOME ELSE zone.name
             key == CaseFold(zone_name)
         IN IF zone.state = "unavailable"
            THEN ZoneLatLongsFrom(Tail(zones), result)
            ELSE IF lat = None \/ lon = None \/ Val(lat) = 0 \/ Val(lon) = 0
            THEN ZoneLatLongsFrom(Tail(zones), result)
            ELSE ZoneLatLongsFrom(Tail(zones),
                    [k \in DOMAIN result \cup {key} |->
                        IF k = key THEN <<Val(lat), Val(lon)>> ELSE result[k]])

\* name.casefold() -> (lat, lon), rebuilt from the host's zone states.
ZoneLatLongs(zones) == ZoneLatLongsFrom(zones, <<>>)

(***************************************************************************)
(* Aggregation (WelkomCoordinator._async_update_data)                       *)
(***************************************************************************)

\* AreaData(): the default aggregate.
AreaData ==
    [people_count |-> 0, people |-> <<>>,
     known_people_count |-> 0, known_people |-> <<>>,
     unknown_people_count |-> 0, unknown_people |-> <<>>]

\* UpdateAreaData, counting every connection as known.
UpdateAreaDataAllKnown(area_data, conn) ==
    [area_data EXCEPT !.people_count = @ + 1,
                      !.people = Append(@, conn.person.display_name),
                      !.known_people_count = @ + 1,
                      !.known_people = Append(@, conn.person.display_name)]

UpdateAreaData(area_data, conn) ==
    LET counted == [area_data EXCEPT !.people_count = @ + 1,
                                     !.people = Append(@, conn.person.display_name)]
    IN IF conn.known
       THEN [counted EXCEPT !.known_people_count = @ + 1,
                            !.known_people = Append(@, conn.person.display_name)]
       ELSE [counted EXCEPT !.unknown_people_count = @ + 1,
                            !.unknown_people = Append(@, conn.person.display_name)]

\* self._update_area_data(areas[key], conn) on a defaultdict of AreaData.
UpdateArea(areas, key, conn) ==
    [k \in DOMAIN areas \cup {key} |->
        IF k = key
        THEN UpdateAreaData(IF key \in DOMAIN areas THEN areas[key] ELSE AreaData, conn)
        ELSE areas[k]]

\* DeriveState, dropping the room of a connection in another home.
DeriveStateNoRoom(home, main_home, room) ==
    IF HomeEq(home, main_home)
    THEN IF room # None THEN Val(room).display_name ELSE STATE_HOME
    ELSE home.display_name

\* The state string of a connection.
DeriveState(home, main_home, room) ==
    IF HomeEq(home, main_home)
    THEN IF room # None THEN Val(room).display_name ELSE STATE_HOME
    ELSE IF room # None
         THEN home.display_name \o <<":", " ">> \o Val(room).display_name
         ELSE home.display_name

\* PersonData(...); obj is the position of the object among those the pass
\* builds (the n-th connection builds object n): it stands for the identity
\* of the object, which the known map, the unknown list and people_by_state
\* share. The device is carried along unread and is left out.
PersonData(obj, conn, home, state) ==
    [obj |-> obj, person |-> conn.person, home |-> home, room |-> conn.room,
     state |-> state, latitude |-> None, longitude |-> None]

\* people_by_state[state].append(person), on a defaultdict(list) of objects.
GroupByState(groups, state, obj) ==
    IF \E i \in 1..Len(groups) : groups[i].state = state
    THEN [i \in 1..Len(groups) |->
            IF groups[i].state = state
            THEN [groups[i] EXCEPT !.members = Append(@, obj)]
            ELSE groups[i]]
    ELSE Append(groups, [state |-> state, members |-> <<obj>>])

\* The dictionaries and lists at loop entry.
LoopStart ==
    [homes |-> <<>>, rooms |-> <<>>, people |-> <<>>, unknown_people |-> <<>>,
     objects |-> <<>>, people_by_state |-> <<>>]

\* `home = conn.home or main_home`.
EffectiveHome(conn, main_home) ==
    IF conn.home # None THEN Val(conn.home) ELSE main_home

\* CountsInRoom, without the test of the home.
CountsInAnyRoom(home, main_home, room) == room # None

\* `if home == main_home and room:` the room aggregate is updated.
CountsInRoom(home, main_home, room) == HomeEq(home, main_home) /\ room # None

\* PutKnown, keeping the first entry of a person id (setdefault).
PutKnownKeepFirst(people, id, obj) ==
    [k \in DOMAIN people \cup {id} |-> IF k \in DOMAIN people THEN people[k] ELSE obj]

\* `people[conn.person.id] = person`.
PutKnown(people, id, obj) ==
    [k \in DOMAIN people \cup {id} |-> IF k = id THEN obj ELSE people[k]]

\* AppendUnknown, inserting at the front.
PrependUnknown(unknown_people, obj) == <<obj>> \o unknown_people

\* `unknown_people.append(person)`.
AppendUnknown(unknown_people, obj) == Append(unknown_people, obj)

\* LoopTail, reading rooms[room.id] before the test of the home: the
\* defaultdict makes an entry for the room of a connection in another home.
LoopTailTouchingRoom(acc, conn, main_home, home, state, obj) ==
    [homes |-> UpdateArea(acc.homes, home.id, conn),
     rooms |-> IF CountsInRoom(home, main_home, conn.room)
               THEN UpdateArea(acc.rooms, Val(conn.room).id, conn)
               ELSE IF conn.room # None
               THEN [k \in DOMAIN acc.rooms \cup {Val(conn.room).id} |->
                        IF k \in DOMAIN acc.rooms THEN acc.rooms[k] ELSE AreaData]
               ELSE acc.rooms,
     people |-> IF conn.known THEN PutKnown(acc.people, conn.person.id, obj)
                ELSE acc.people,
     unknown_people |-> IF conn.known THEN acc.unknown_people
                        ELSE AppendUnknown(acc.unknown_people, obj),
     objects |-> Append(acc.objects, PersonData(obj, conn, home, state)),
     people_by_state |-> GroupByState(acc.people_by_state, state, obj)]

\* The rest of an iteration, once home, state and the PersonData are there.
LoopTail(acc, conn, main_home, home, state, obj) ==
    [homes |-> UpdateArea(acc.homes, home.id, conn),
     rooms |-> IF CountsInRoom(home, main_home, conn.room)
               THEN UpdateArea(acc.rooms, Val(conn.room).id, conn)
               ELSE acc.rooms,
     people |-> IF conn.known THEN PutKnown(acc.people, conn.person.id, obj)
                ELSE acc.people,
     unknown_people |-> IF conn.known THEN acc.unknown_people
                        ELSE AppendUnknown(acc.unknown_people, obj),
     objects |-> Append(acc.objects, PersonData(obj, conn, home, state)),
     people_by_state |-> GroupByState(acc.people_by_state, state, obj)]

\* One iteration of `for conn in conns`.
LoopBody(acc, conn, main_home) ==
    LoopTail(acc, conn, main_home, EffectiveHome(conn, main_home),
             DeriveState(EffectiveHome(conn, main_home), main_home, conn.room),
             Len(acc.objects) + 1)

RECURSIVE Loop(_, _, _)
\* The loop; `main_home = self.home` is read in each iteration, so main is
\* looked at only when there is a connection.
Loop(acc, conns, main) ==
    IF conns = <<>> THEN acc
    ELSE Loop(LoopBody(acc, Head(conns), Val(main)), Tail(conns), main)

RECURSIVE AssignCoordinatesExact(_, _, _)
\* AssignCoordinates, looking the state up as it is written.
AssignCoordinatesExact(objects, groups, zone_lat_longs) ==
    IF groups = <<>> THEN objects
    ELSE LET group == Head(groups)
             key == group.state
             members == { group.members[i] : i \in 1..Len(group.members) }
         IN IF key \in DOMAIN zone_lat_longs
            THEN AssignCoordinatesExact(
                    [o \in 1..Len(objects) |->
                        IF o \in members
                        THEN [objects[o] EXCEPT !.latitude = Some(zone_lat_longs[key][1]),
                                                !.longitude = Some(zone_lat_longs[key][2])]
                        ELSE objects[o]],
                    Tail(groups), zone_lat_longs)
            ELSE AssignCoordinatesExact(objects, Tail(groups), zone_lat_longs)

RECURSIVE AssignCoordinates(_, _, _)
\* The pass over people_by_state: every object of a state whose case-folded
\* text is a zone key gets that zone's coordinates.
AssignCoordinates(objects, groups, zone_lat_longs) ==
    IF groups = <<>> THEN objects
    ELSE LET group == Head(groups)
             key == CaseFold(group.state)
             members == { group.members[i] : i \in 1..Len(group.members) }
         IN IF key \in DOMAIN zone_lat_longs
            THEN AssignCoordinates(
                    [o \in 1..Len(objects) |->
                        IF o \in members
                        THEN [objects[o] EXCEPT !.latitude = Some(zone_lat_longs[key][1]),
                                                !.longitude = Some(zone_lat_longs[key][2])]
                        ELSE objects[o]],
                    Tail(groups), zone_lat_longs)
            ELSE AssignCoordinates(objects, Tail(groups), zone_lat_longs)

\* WelkomData(homes, rooms, people, unknown_people).
WelkomData(acc, objects) ==
    [homes |-> acc.homes,
     rooms |-> acc.rooms,
     people |-> [k \in DOMAIN acc.people |-> objects[acc.people[k]]],
     unknown_people |-> [i \in 1..Len(acc.unknown_people) |->
                            objects[acc.unknown_people[i]]]]

\* The coordinate pass and the returned snapshot, after the loop.
Located(acc, zone_lat_longs) ==
    WelkomData(acc, AssignCoordinates(acc.objects, acc.people_by_state, zone_lat_longs))

\* The snapshot built from a fetched list; main is the resolved primary
\* home, or None when it does not resolve.
BuildData(conns, main, zone_lat_longs) ==
    Located(Loop(LoopStart, conns, main), zone_lat_longs)

(***************************************************************************)
(* Presence sensors (binary_sensor.py)                                     *)
(***************************************************************************)

\* `self.coordinator.data.people.get(self.coordinator_context)`
PeopleGet(people, key) == IF key \in DOMAIN people THEN Some(people[key]) ELSE None

\* IsOn, without the test of the home: on for every connected person.
IsOnAnyHome(people, context, main_home) ==
    LET data == PeopleGet(people, context)
    IN data # None

\* WelkomPresenceSensor._async_update_attrs:
\* `bool(data and data.home == main_home)`.
IsOn(people, context, main_home) ==
    LET data == PeopleGet(people, context)
    IN IF data = None THEN FALSE ELSE HomeEq(Val(data).home, main_home)

(***************************************************************************)
(* Trackers (device_tracker.py)                                            *)
(***************************************************************************)

STATE_NOT_HOME == <<"n", "o", "t", "_", "h", "o", "m", "e">>

\* `for idx in range(10)`: the trackers of unknown people.
SlotCount == 10

\* get_person_data: `data.people.get(id)`.
GetPersonData(data, id) == PeopleGet(data.people, id)

\* get_unknown_person_data: `data.unknown_people[idx]`, None on IndexError;
\* idx counts from 0.
GetUnknownPersonData(data, idx) ==
    IF idx < Len(data.unknown_people) THEN Some(data.unknown_people[idx + 1]) ELSE None

\* The state and coordinates of a tracker before its first update.
NewTracker == [state |-> None, latitude |-> None, longitude |-> None]

\* UpdateAttrs, without the else branch: a tracker without data keeps
\* what it had.
UpdateAttrsKeep(attrs, data) ==
    IF data # None
    THEN [state |-> Val(data).state, latitude |-> Val(data).latitude,
          longitude |-> Val(data).longitude]
    ELSE attrs

\* WelkomTracker._async_update_attrs, on what data_fn returned.
UpdateAttrs(attrs, data) ==
    IF data # None
    THEN [state |-> Val(data).state, latitude |-> Val(data).latitude,
          longitude |-> Val(data).longitude]
    ELSE [state |-> STATE_NOT_HOME, latitude |-> None, longitude |-> None]

(***************************************************************************)
(* Entities and the coordinator's listeners                                 *)
(***************************************************************************)

\* The entities of the entry: the trackers of the catalogued people by
\* person id, the trackers of the unknown-people slots (slot idx is at
\* idx + 1), the presence sensors by person id. Nothing before the
\* platforms have added them.
NoEntities == [trackers |-> <<>>, slots |-> <<>>, is_on |-> <<>>]

PersonIds(people) == { people[i].id : i \in 1..Len(people) }

\* async_add_entities of a platform that has its catalogs: every entity is
\* built and updates its attributes from the coordinator's data. The area
\* sensors hold no more than NativeValue of the data.
AddEntities(ents, t, people, data, main_home) ==
    CASE t = "device_tracker" ->
            [ents EXCEPT
                !.trackers = [id \in PersonIds(people) |->
                                UpdateAttrs(NewTracker, GetPersonData(data, id))],
                !.slots = [i \in 1..SlotCount |->
                                UpdateAttrs(NewTracker, GetUnknownPersonData(data, i - 1))]]
      [] t = "binary_sensor" ->
            [ents EXCEPT
                !.is_on = [id \in PersonIds(people) |->
                                IsOn(data.people, id, Val(main_home))]]
      [] OTHER -> ents

\* async_update_listeners: every entity's _handle_coordinator_update.
UpdateListeners(ents, data, main_home) ==
    [trackers |-> [id \in DOMAIN ents.trackers |->
                      UpdateAttrs(ents.trackers[id], GetPersonData(data, id))],
     slots |-> [i \in DOMAIN ents.slots |->
                      UpdateAttrs(ents.slots[i], GetUnknownPersonData(data, i - 1))],
     is_on |-> [id \in DOMAIN ents.is_on |-> IsOn(data.people, id, Val(main_home))]]

\* PersonData.__eq__ and WelkomData.__eq__: field by field, a home by
\* Home.__eq__; the identity of an object is no field.
PersonDataEq(a, b) ==
    /\ a.person = b.person /\ HomeEq(a.home, b.home) /\ a.room = b.room
    /\ a.state = b.state /\ a.latitude = b.latitude /\ a.longitude = b.longitude
WelkomDataEq(a, b) ==
    /\ a.homes = b.homes
    /\ a.rooms = b.rooms
    /\ DOMAIN a.people = DOMAIN b.people
    /\ \A k \in DOMAIN a.people : PersonDataEq(a.people[k], b.people[k])
    /\ Len(a.unknown_people) = Len(b.unknown_people)
    /\ \A j \in 1..Len(a.unknown_people) :
          PersonDataEq(a.unknown_people[j], b.unknown_people[j])

(***************************************************************************)
(* State                                                                   *)
(***************************************************************************)

VARIABLES
    home_id,      \* config_entry.data.get(CONF_HOME_ID)
    api_homes,    \* what GET /api/homes reports
    api_people,   \* what GET /api/people reports
    api_live,     \* what GET /api/homes/people reports now
    zones,        \* the host's zone states
    client,       \* WelkomClient: _homes, _people, _home, _rooms, _connection, _session
    requests,     \* requests this client has issued, per endpoint
    coordinator,  \* WelkomCoordinator: homes, people, _home, data
    setup,        \* where async_setup_entry stands
    tasks,        \* the coroutines that read the client's catalogs
    tick,         \* the current or last run of _async_update_data
    returned,     \* what the runs of this coordinator were given and returned
    elapsed,      \* the time the gather of _async_setup has taken
    entries,      \* the host's config entries of the integration, by unique id
    door,         \* a call of Home.door_code: home, person, returned value
    entities      \* the trackers and presence sensors the platforms have added

vars == <<home_id, api_homes, api_people, api_live, zones, client, requests,
          coordinator, setup, tasks, tick, returned, elapsed, entries, door,
          entities>>

Endpoints == {"me", "homes", "people", "live"}

\* The two coroutines of the gather in _async_setup, and the three platforms.
GatherTasks == {"gather_homes", "gather_people"}
Platforms == {"device_tracker", "binary_sensor", "sensor"}

\* What may go wrong with a request: the transport, the HTTP status
\* (raise_for_status), the validation of the body.
Failures == {"transport", "http", "malformed"}

\* The connection lists the remote reports over a run of the integration.
LiveSamples ==
    { <<>>,
      << ConnectedPerson(TRUE, Ann, None, Some(Den)) >>,
      << ConnectedPerson(FALSE, Bob, None, None),
         ConnectedPerson(TRUE, Ann, Some(Loft), None) >> }

\* WelkomClient(id, url, home_id): nothing fetched, no session. `session`
\* says that the aiohttp session was created, `closed` that it was closed.
NewClient ==
    [homes |-> None, people |-> None, home |-> None, rooms |-> None,
     connection |-> None, session |-> FALSE, closed |-> FALSE]

\* WelkomCoordinator(hass, config_entry, client): class defaults.
NewCoordinator == [homes |-> None, people |-> None, home |-> None, data |-> None]

NoTasks == [t \in GatherTasks \cup Platforms |-> [at |-> "off", waiting |-> FALSE]]

IdleTick ==
    [pc |-> "idle", count |-> 0, conns |-> None, zone_lat_longs |-> None, raised |-> None]

\* asyncio.timeout(10) of _async_setup.
SetupTimeout == 10

\* The data of a config entry: a dict of CONF_ID, CONF_URL and, when one is
\* given, CONF_HOME_ID.
EntryData(id, url, hid) ==
    [k \in {"id", "url"} \cup (IF hid # None THEN {"home_id"} ELSE {}) |->
        IF k = "id" THEN id ELSE IF k = "url" THEN url ELSE Val(hid)]

\* A config entry: its unique id, its data, and the data it was created with.
ConfigEntry(unique_id, data) == [unique_id |-> unique_id, data |-> data, created |-> data]

\* The entry that is set up.
ClientId == "c1"
SetUpEntry(hid) ==
    [k \in {ClientId} |-> ConfigEntry(ClientId, EntryData(ClientId, "u1", hid))]
NoCall == [home |-> None, person |-> None, called |-> FALSE, returned |-> None]

Init ==
    /\ home_id \in HomeIdOptions
    /\ api_homes \in HomeCatalogs
    /\ api_people \in PeopleCatalogs
    /\ api_live \in LiveSamples
    /\ zones \in ZoneStates
    /\ client = NewClient
    /\ requests = [e \in Endpoints |-> 0]
    /\ coordinator = NewCoordinator
    /\ setup = "new"
    /\ tasks = NoTasks
    /\ tick = IdleTick
    /\ returned = <<>>
    /\ elapsed = 0
    /\ entries = SetUpEntry(home_id)
    /\ door = NoCall
    /\ entities = NoEntities

(***************************************************************************)
(* The client's requests and memoized catalogs (client.py)                 *)
(***************************************************************************)

\* WelkomClient.request: one GET on the lazily created session.
Request(reqs, endpoint) == [reqs EXCEPT ![endpoint] = @ + 1]

\* Unset, for a property that is not memoized.
NeverCached(cache) == TRUE

\* `if self._homes is None:` and its like: a fetch is needed.
Unset(cache) == cache = None

\* The catalog a memoized property reads.
Resource(at) == IF at = "people" THEN "people" ELSE "homes"
ApiValue(resource) == IF resource = "people" THEN api_people ELSE api_homes

\* ConnectedPeopleRequest, memoized like the catalogs.
ConnectedPeopleMemoized(reqs) ==
    IF reqs["live"] = 0 THEN Request(reqs, "live") ELSE reqs

\* WelkomClient.connected_people: always a request.
ConnectedPeopleRequest(reqs) == Request(reqs, "live")

(***************************************************************************)
(* Primary home, memoized                                                   *)
(***************************************************************************)

\* WelkomCoordinator.home: the memo, or the resolution over self.homes.
CoordinatorHome ==
    IF coordinator.home # None THEN Resolved(Val(coordinator.home))
    ELSE IF coordinator.homes = None THEN ValueError("No homes found", <<>>)
    ELSE ResolveHome(Val(coordinator.homes), home_id)

\* WelkomClient.home, once `await self.homes` has returned homes.
ClientHome(homes) ==
    IF client.home # None THEN Resolved(Val(client.home))
    ELSE ResolveHome(homes, home_id)

(***************************************************************************)
(* One run of _async_update_data on a fetched list                         *)
(***************************************************************************)

\* AsyncUpdateData, catching the error of the primary home and returning
\* what was built until then.
AsyncUpdateDataPartial(conns) ==
    LET main == CoordinatorHome
    IN IF conns # <<>> /\ ~main.ok
       THEN [raised |-> None, home |-> coordinator.home,
             zone_lat_longs |-> Some(ZoneLatLongs(zones)),
             data |-> Some(Located(LoopStart, ZoneLatLongs(zones)))]
       ELSE [raised |-> None,
             home |-> IF conns = <<>> THEN coordinator.home ELSE main.home,
             zone_lat_longs |-> Some(ZoneLatLongs(zones)),
             data |-> Some(BuildData(conns, main.home, ZoneLatLongs(zones)))]

\* AsyncUpdateData, going on from the home aggregates of the last snapshot.
AsyncUpdateDataCarried(conns) ==
    LET main == CoordinatorHome
        start == IF coordinator.data = None THEN LoopStart
                 ELSE [LoopStart EXCEPT !.homes = Val(coordinator.data).homes]
    IN IF conns # <<>> /\ ~main.ok
       THEN [raised |-> main.error, home |-> coordinator.home,
             zone_lat_longs |-> None, data |-> None]
       ELSE [raised |-> None,
             home |-> IF conns = <<>> THEN coordinator.home ELSE main.home,
             zone_lat_longs |-> Some(ZoneLatLongs(zones)),
             data |-> Some(Located(Loop(start, conns, main.home), ZoneLatLongs(zones)))]

\* raised: the exception that leaves the method, if any; data: the returned
\* snapshot, if any; zone_lat_longs: the zone mapping it read, if it came
\* that far; home: the coordinator's _home afterwards.
AsyncUpdateData(conns) ==
    LET main == CoordinatorHome
    IN IF conns # <<>> /\ ~main.ok
       THEN [raised |-> main.error, home |-> coordinator.home,
             zone_lat_longs |-> None, data |-> None]
       ELSE [raised |-> None,
             home |-> IF conns = <<>> THEN coordinator.home ELSE main.home,
             zone_lat_longs |-> Some(ZoneLatLongs(zones)),
             data |-> Some(BuildData(conns, main.home, ZoneLatLongs(zones)))]

(***************************************************************************)
(* Setup (async_setup_entry, _async_setup)                                  *)
(***************************************************************************)

\* async_setup_entry up to the gather of _async_setup: client and
\* coordinator are built and the two catalog coroutines are scheduled.
SetupEntry ==
    /\ setup = "new"
    /\ setup' = "gather"
    /\ client' = NewClient
    /\ coordinator' = NewCoordinator
    /\ tasks' = [t \in DOMAIN tasks |->
                    IF t = "gather_homes" THEN [at |-> "homes", waiting |-> FALSE]
                    ELSE IF t = "gather_people" THEN [at |-> "people", waiting |-> FALSE]
                    ELSE tasks[t]]
    /\ elapsed' = 0
    /\ UNCHANGED <<entities, returned, entries, door, home_id, api_homes, api_people, api_live, zones,
                   requests, tick>>

\* What task t does with the catalog it awaited, up to its next await or
\* its end: the next program point, and the memos it sets on the way.
AfterCatalog(t, at, cl, co) ==
    CASE t \in GatherTasks -> [at |-> "done", client |-> cl, coordinator |-> co]
      [] t = "device_tracker" -> [at |-> "done", client |-> cl, coordinator |-> co]
      [] t = "binary_sensor" ->
            \* WelkomPresenceSensor.__init__ -> _async_update_attrs, per person
            IF Val(cl.people) = <<>>
            THEN [at |-> "done", client |-> cl, coordinator |-> co]
            ELSE IF CoordinatorHome.ok
            THEN [at |-> "done", client |-> cl,
                  coordinator |-> [co EXCEPT !.home = CoordinatorHome.home]]
            ELSE [at |-> "raised", client |-> cl, coordinator |-> co]
      [] t = "sensor" /\ at = "homes" ->
            \* `rooms = await client.rooms` -> `await self.home` -> `await self.homes`
            [at |-> IF cl.rooms # None THEN "done" ELSE "rooms", client |-> cl,
             coordinator |-> co]
      [] t = "sensor" /\ at = "rooms" ->
            LET home == ClientHome(Val(cl.homes))
            IN IF home.ok
               THEN [at |-> "done",
                     client |-> [cl EXCEPT !.home = home.home, !.rooms = Some(<<>>)],
                     coordinator |-> co]
               ELSE [at |-> "raised", client |-> cl, coordinator |-> co]

AccessPoints == {"homes", "people", "rooms"}

\* The entities once task t has come to `at`: a platform that is done has
\* added its entities.
EntitiesAfter(t, at, cl, co) ==
    IF t \in Platforms /\ at = "done"
    THEN AddEntities(entities, t, Val(cl.people), Val(co.data), co.home)
    ELSE entities

\* A task reaches `await client.homes` / `await client.people`: the cached
\* value is returned at once, or a request is issued and the task waits.
CatalogAccess(t) ==
    /\ tasks[t].at \in AccessPoints
    /\ ~tasks[t].waiting
    /\ LET resource == Resource(tasks[t].at)
       IN IF Unset(client[resource])
          THEN /\ requests' = Request(requests, resource)
               /\ client' = [client EXCEPT !.session = TRUE]
               /\ tasks' = [tasks EXCEPT ![t].waiting = TRUE]
               /\ UNCHANGED <<coordinator, entities>>
          ELSE LET after == AfterCatalog(t, tasks[t].at, client, coordinator)
               IN /\ tasks' = [tasks EXCEPT ![t] = [at |-> after.at, waiting |-> FALSE]]
                  /\ client' = after.client
                  /\ coordinator' = after.coordinator
                  /\ entities' = EntitiesAfter(t, after.at, after.client, after.coordinator)
                  /\ UNCHANGED requests
    /\ UNCHANGED <<returned, elapsed, entries, door, home_id, api_homes, api_people, api_live, zones, setup, tick>>

\* The response to a task's request arrives and validates: the memo is set.
CatalogResponse(t) ==
    /\ tasks[t].waiting
    /\ LET resource == Resource(tasks[t].at)
           cached == [client EXCEPT ![resource] = Some(ApiValue(resource))]
           after == AfterCatalog(t, tasks[t].at, cached, coordinator)
       IN /\ tasks' = [tasks EXCEPT ![t] = [at |-> after.at, waiting |-> FALSE]]
          /\ client' = after.client
          /\ coordinator' = after.coordinator
          /\ entities' = EntitiesAfter(t, after.at, after.client, after.coordinator)
    /\ UNCHANGED <<returned, elapsed, entries, door, home_id, api_homes, api_people, api_live, zones, requests, setup, tick>>

\* CatalogFailure, with the failed fetch memoized as an empty catalog.
CatalogFailureCached(t, failure) ==
    /\ tasks[t].waiting
    /\ failure \in Failures
    /\ tasks' = [tasks EXCEPT ![t] = [at |-> "raised", waiting |-> FALSE]]
    /\ client' = [client EXCEPT ![Resource(tasks[t].at)] = Some(<<>>)]
    /\ UNCHANGED <<entities, returned, elapsed, entries, door, home_id, api_homes, api_people, api_live, zones, requests,
                   coordinator, setup, tick>>

\* The request fails, or its body does not validate: the task raises and
\* the memo stays unset.
CatalogFailure(t, failure) ==
    /\ tasks[t].waiting
    /\ failure \in Failures
    /\ tasks' = [tasks EXCEPT ![t] = [at |-> "raised", waiting |-> FALSE]]
    /\ UNCHANGED <<entities, returned, elapsed, entries, door, home_id, api_homes, api_people, api_live, zones, client, requests,
                   coordinator, setup, tick>>

\* Time passes while the gather of _async_setup waits, up to the timeout.
TimePasses ==
    /\ setup = "gather"
    /\ \E t \in GatherTasks : tasks[t].waiting
    /\ elapsed < SetupTimeout
    /\ elapsed' = elapsed + 1
    /\ UNCHANGED <<entities, returned, entries, door, home_id, api_homes, api_people, api_live, zones,
                   client, requests, coordinator, setup, tasks, tick>>

\* Both coroutines of the gather returned within the timeout:
\* self.homes, self.people = ...; the first refresh goes on.
GatherDone ==
    /\ setup = "gather"
    /\ \A t \in GatherTasks : tasks[t].at = "done"
    /\ coordinator' = [coordinator EXCEPT !.homes = client.homes, !.people = client.people]
    /\ setup' = "refresh"
    /\ elapsed' = 0
    /\ UNCHANGED <<entities, returned, entries, door, home_id, api_homes, api_people, api_live, zones, client, requests,
                   tasks, tick>>

\* GatherRaise, assigning the catalog of the coroutine that returned.
GatherRaisePartial ==
    /\ setup = "gather"
    /\ \E t \in GatherTasks : tasks[t].at = "raised"
    /\ setup' = "failed"
    /\ coordinator' = [coordinator EXCEPT
                          !.homes = IF tasks["gather_homes"].at = "done"
                                    THEN client.homes ELSE @,
                          !.people = IF tasks["gather_people"].at = "done"
                                     THEN client.people ELSE @]
    /\ elapsed' = 0
    /\ UNCHANGED <<entities, returned, entries, door, home_id, api_homes, api_people, api_live, zones,
                   client, requests, tasks, tick>>

\* One coroutine of the gather raised: the gather raises, setup fails.
GatherRaise ==
    /\ setup = "gather"
    /\ \E t \in GatherTasks : tasks[t].at = "raised"
    /\ setup' = "failed"
    /\ elapsed' = 0
    /\ UNCHANGED <<entities, returned, entries, door, home_id, api_homes, api_people, api_live, zones, client, requests,
                   coordinator, tasks, tick>>

\* asyncio.timeout(10) fires before the gather has returned: the pending
\* coroutines are cancelled, setup fails.
GatherTimeout ==
    /\ setup = "gather"
    /\ elapsed = SetupTimeout
    /\ \E t \in GatherTasks : tasks[t].at \in AccessPoints
    /\ tasks' = [t \in DOMAIN tasks |->
                    IF t \in GatherTasks /\ tasks[t].at \in AccessPoints
                    THEN [at |-> "cancelled", waiting |-> FALSE]
                    ELSE tasks[t]]
    /\ setup' = "failed"
    /\ elapsed' = 0
    /\ UNCHANGED <<entities, returned, entries, door, home_id, api_homes, api_people, api_live, zones, client, requests,
                   coordinator, tick>>

\* async_forward_entry_setups has set up every platform (a platform that
\* raised is logged by the host): async_setup_entry returns True.
ForwardDone ==
    /\ setup = "forward"
    /\ \A p \in Platforms : tasks[p].at \in {"done", "raised"}
    /\ setup' = "loaded"
    /\ UNCHANGED <<entities, returned, elapsed, entries, door, home_id, api_homes, api_people, api_live, zones, client, requests,
                   coordinator, tasks, tick>>

(***************************************************************************)
(* Refresh ticks (_async_update_data under the host's coordinator)          *)
(***************************************************************************)

\* The first refresh of async_setup_entry, or a scheduled one once loaded;
\* one at a time.
TickDue == setup \in {"refresh", "loaded"} /\ tick.pc = "idle"

\* `conns = await self.client.connected_people`: the request goes out.
TickStart ==
    /\ TickDue
    /\ tick.count < MaxTicks
    /\ requests' = ConnectedPeopleRequest(requests)
    /\ client' = [client EXCEPT !.session = TRUE]
    /\ tick' = [pc |-> "fetching", count |-> tick.count + 1, conns |-> None,
                zone_lat_longs |-> None, raised |-> None]
    /\ UNCHANGED <<entities, returned, elapsed, entries, door, home_id, api_homes, api_people, api_live, zones, coordinator, setup, tasks>>

\* After the first refresh: on success the platforms are forwarded, on
\* failure the entry is not set up.
AfterTick(ok) ==
    IF setup # "refresh"
    THEN /\ UNCHANGED <<setup, tasks>>
    ELSE IF ok
    THEN /\ setup' = "forward"
         /\ tasks' = [t \in DOMAIN tasks |->
                        IF t = "sensor" THEN [at |-> "homes", waiting |-> FALSE]
                        ELSE IF t \in Platforms THEN [at |-> "people", waiting |-> FALSE]
                        ELSE tasks[t]]
    ELSE /\ setup' = "failed"
         /\ UNCHANGED tasks

\* The response arrives and validates; the snapshot is built and returned,
\* or the primary home does not resolve and the method raises. The host
\* stores a returned snapshot and calls the listeners when it differs from
\* the last one (always_update=False), and when the run raised.
TickResponse ==
    /\ tick.pc = "fetching"
    /\ \E result \in {AsyncUpdateData(api_live)} :
          /\ tick' = [tick EXCEPT !.pc = "idle", !.conns = Some(api_live),
                                  !.zone_lat_longs = result.zone_lat_longs,
                                  !.raised = result.raised]
          /\ coordinator' = [coordinator EXCEPT
                                !.home = result.home,
                                !.data = IF result.data # None THEN result.data ELSE @]
          /\ returned' = IF result.data = None THEN returned
                         ELSE Append(returned, [conns |-> api_live,
                                                zone_lat_longs |-> Val(result.zone_lat_longs),
                                                data |-> Val(result.data)])
          /\ entities' = IF coordinator.data = None THEN entities
                         ELSE IF result.data = None
                         THEN UpdateListeners(entities, Val(coordinator.data), result.home)
                         ELSE IF WelkomDataEq(Val(coordinator.data), Val(result.data))
                         THEN entities
                         ELSE UpdateListeners(entities, Val(result.data), result.home)
          /\ AfterTick(result.raised = None)
    /\ UNCHANGED <<elapsed, entries, door, home_id, api_homes, api_people, api_live, zones, client, requests>>

\* The request fails, the body does not validate, or the refresh is
\* cancelled while it waits: the method is left by the exception.
TickFailure(failure) ==
    /\ tick.pc = "fetching"
    /\ failure \in Failures \cup {"cancelled"}
    /\ tick' = [tick EXCEPT !.pc = "idle", !.raised = Some(Raised(failure))]
    /\ entities' = IF coordinator.data = None THEN entities
                   ELSE UpdateListeners(entities, Val(coordinator.data), coordinator.home)
    /\ AfterTick(FALSE)
    /\ UNCHANGED <<returned, elapsed, entries, door, home_id, api_homes, api_people, api_live, zones, client, requests,
                   coordinator>>

\* The people connected at the remote change.
RemoteChange(conns) ==
    /\ setup \in {"refresh", "loaded"}
    /\ conns \in LiveSamples
    /\ conns # api_live
    /\ api_live' = conns
    /\ UNCHANGED <<entities, returned, elapsed, entries, door, home_id, api_homes, api_people, zones, client, requests, coordinator,
                   setup, tasks, tick>>

\* The host's zone states change. A run reads them when the response to
\* its request is there, so they change while a run waits.
ZoneChange(states) ==
    /\ tick.pc = "fetching"
    /\ states \in ZoneStates
    /\ states # zones
    /\ zones' = states
    /\ UNCHANGED <<entities, returned, elapsed, entries, door, home_id, api_homes, api_people, api_live,
                   client, requests, coordinator, setup, tasks, tick>>

\* async_unload_entry: the platforms are unloaded, the refresh that waits
\* is cancelled and none is scheduled any more; the client is left as it is.
UnloadEntry ==
    /\ setup = "loaded"
    /\ setup' = "unloaded"
    /\ tick' = IF tick.pc = "fetching"
               THEN [tick EXCEPT !.pc = "idle", !.raised = Some(Raised("cancelled"))]
               ELSE tick
    /\ entities' = NoEntities
    /\ UNCHANGED <<returned, elapsed, entries, door, home_id, api_homes, api_people, api_live,
                   zones, client, requests, coordinator, tasks>>

Next ==
    \/ SetupEntry
    \/ \E t \in GatherTasks \cup Platforms : CatalogAccess(t)
    \/ \E t \in GatherTasks \cup Platforms : CatalogResponse(t)
    \/ \E t \in GatherTasks \cup Platforms : \E f \in Failures : CatalogFailure(t, f)
    \/ TimePasses
    \/ GatherDone
    \/ GatherRaise
    \/ GatherTimeout
    \/ ForwardDone
    \/ TickStart
    \/ TickResponse
    \/ \E f \in Failures \cup {"cancelled"} : TickFailure(f)
    \/ \E conns \in LiveSamples : RemoteChange(conns)
    \/ \E states \in ZoneStates : ZoneChange(states)
    \/ UnloadEntry

Spec == Init /\ [][Next]_vars

(***************************************************************************)
(* The aggregation on every bounded connection list                         *)
(***************************************************************************)

\* The first refresh of a set-up entry, its request in flight, for every
\* connection list of at most MaxConns connections the remote may answer.
InitAgg ==
    /\ \E entry \in {<<None, <<Villa>>>>, <<Some("h2"), <<Villa, Cabin>>>>} :
            home_id = entry[1] /\ api_homes = entry[2]
    /\ api_people = <<Ann, Bob>>
    /\ api_live \in SeqsUpTo(ConnectedPeople, MaxConns)
    /\ zones = << Zone("zone.home", <<"H", "o", "m", "e">>, "0", Some(1), Some(2)),
                  Zone("zone.den", <<"D", "E", "N">>, "0", Some(3), Some(4)) >>
    /\ client = [NewClient EXCEPT !.homes = Some(api_homes), !.people = Some(api_people),
                                  !.session = TRUE]
    /\ requests = [e \in Endpoints |-> IF e = "me" THEN 0 ELSE 1]
    /\ coordinator = [NewCoordinator EXCEPT !.homes = Some(api_homes),
                                            !.people = Some(api_people)]
    /\ setup = "refresh"
    /\ tasks = [t \in DOMAIN NoTasks |->
                  IF t \in GatherTasks THEN [at |-> "done", waiting |-> FALSE]
                  ELSE NoTasks[t]]
    /\ tick = [IdleTick EXCEPT !.pc = "fetching", !.count = 1]
    /\ returned = <<>>
    /\ elapsed = 0
    /\ entries = SetUpEntry(home_id)
    /\ door = NoCall
    /\ entities = NoEntities

NextAgg == TickResponse

SpecAgg == InitAgg /\ [][NextAgg]_vars

(***************************************************************************)
(* Properties                                                              *)
(***************************************************************************)

\* The last run of _async_update_data returned a snapshot; it was built
\* from Fetched and is the coordinator's data.
Refreshed == tick.pc = "idle" /\ tick.conns # None /\ tick.raised = None
Fetched == Val(tick.conns)
Snapshot == Val(coordinator.data)
Primary == Val(coordinator.home)

Positions == 1..Len(Fetched)
Knowns == { i \in Positions : Fetched[i].known }
Unknowns == { i \in Positions : ~Fetched[i].known }
KnownIds == { Fetched[i].person.id : i \in Knowns }

\* The PersonData built from the i-th connection is in the known map, in
\* the unknown list.
InKnownMap(i) == \E k \in DOMAIN Snapshot.people : Snapshot.people[k].obj = i
InUnknownList(i) ==
    \E j \in 1..Len(Snapshot.unknown_people) : Snapshot.unknown_people[j].obj = i

\* No later known connection has the person id of the i-th.
LastOfItsPerson(i) ==
    \A j \in Knowns : j > i => Fetched[j].person.id # Fetched[i].person.id

\* Every PersonData of the snapshot.
SnapshotPersons ==
    { Snapshot.people[k] : k \in DOMAIN Snapshot.people }
        \cup { Snapshot.unknown_people[j] : j \in 1..Len(Snapshot.unknown_people) }

\* The id of the effective home of a connection.
EffectiveId(conn) == IF conn.home # None THEN Val(conn.home).id ELSE Primary.id

RECURSIVE NamesAt(_, _)
\* The person display names of the connections at the positions of idx
\* among the first n, in input order.
NamesAt(idx, n) ==
    IF n = 0 THEN <<>>
    ELSE IF n \in idx THEN Append(NamesAt(idx, n - 1), Fetched[n].person.display_name)
    ELSE NamesAt(idx, n - 1)

\* An aggregate counts exactly the connections at the positions of idx.
Counts(area, idx) ==
    /\ area.people_count = Cardinality(idx)
    /\ area.known_people_count = Cardinality(idx \cap Knowns)
    /\ area.unknown_people_count = Cardinality(idx \cap Unknowns)
    /\ area.people_count = area.known_people_count + area.unknown_people_count
    /\ area.people = NamesAt(idx, Len(Fetched))
    /\ area.known_people = NamesAt(idx \cap Knowns, Len(Fetched))
    /\ area.unknown_people = NamesAt(idx \cap Unknowns, Len(Fetched))
    /\ Len(area.people) = area.people_count
    /\ Len(area.known_people) = area.known_people_count
    /\ Len(area.unknown_people) = area.unknown_people_count

\* C1, as stated: after a refresh every fetched connection is represented
\* in exactly one of the known-people map and the unknown-people list, and
\* the size of the map plus the length of the list is the number of fetched
\* connections, however often a person id occurs.
C1_PartitionCoversAll ==
    Refreshed =>
        /\ \A i \in Positions : InKnownMap(i) # InUnknownList(i)
        /\ Cardinality(DOMAIN Snapshot.people) + Len(Snapshot.unknown_people)
              = Len(Fetched)

\* C1, amended: every unknown connection is represented by exactly one
\* PersonData of the unknown-people list; a known connection is represented
\* in the known-people map, under its person id, exactly when no later known
\* connection has the same person id; no PersonData is in both; the size of
\* the map plus the length of the list is the number of distinct person ids
\* of known connections plus the number of unknown connections, which is
\* the number of fetched connections exactly when no person id is on two
\* known connections.
C1_PartitionLastWins ==
    Refreshed =>
        /\ \A i \in Positions : ~(InKnownMap(i) /\ InUnknownList(i))
        /\ \A i \in Positions : InUnknownList(i) <=> i \in Unknowns
        /\ \A i \in Unknowns :
              Cardinality({ j \in 1..Len(Snapshot.unknown_people) :
                              Snapshot.unknown_people[j].obj = i }) = 1
        /\ \A i \in Positions : InKnownMap(i) <=> (i \in Knowns /\ LastOfItsPerson(i))
        /\ \A k \in DOMAIN Snapshot.people : Snapshot.people[k].person.id = k
        /\ \A p \in SnapshotPersons :
              /\ p.obj \in Positions
              /\ p.person = Fetched[p.obj].person
              /\ p.room = Fetched[p.obj].room
        /\ Cardinality(DOMAIN Snapshot.people) + Len(Snapshot.unknown_people)
              = Cardinality(KnownIds) + Cardinality(Unknowns)
        /\ (Cardinality(DOMAIN Snapshot.people) + Len(Snapshot.unknown_people) = Len(Fetched))
              <=> (Cardinality(KnownIds) = Cardinality(Knowns))

\* Two known connections of one person and an unknown one were refreshed.
C1_Witness ==
    /\ Refreshed
    /\ Len(Fetched) = 3
    /\ Unknowns # {}
    /\ \E i, j \in Knowns : i < j /\ Fetched[i].person.id = Fetched[j].person.id
    /\ Cardinality(DOMAIN Snapshot.people) + Len(Snapshot.unknown_people) = 2

\* The home catalog leaves the primary home open: several homes (or none)
\* and no configured id, or a configured id that is not in the catalog.
CatalogIds == { api_homes[i].id : i \in 1..Len(api_homes) }
Configured == home_id # None /\ Val(home_id) # ""
Unresolvable ==
    \/ ~Configured /\ Len(api_homes) # 1
    \/ Configured /\ Val(home_id) \notin CatalogIds

\* C2: with several homes and no configured home id, or with a configured
\* home id that is not among the fetched homes, async_setup_entry never
\* completes successfully, whatever the first refresh receives.
C2_SetupFailsOnUnresolvableHome ==
    ((~Configured /\ Len(api_homes) >= 2) \/ (Configured /\ Val(home_id) \notin CatalogIds))
        => setup # "loaded"

\* A run of _async_update_data ends in this step without a snapshot of its
\* own: no response arrived, or the response held a connection while the
\* primary home does not resolve.
TickFails ==
    /\ tick.pc = "fetching"
    /\ tick'.pc = "idle"
    /\ \/ tick'.conns = None
       \/ Val(tick'.conns) # <<>> /\ Unresolvable

\* C3: a tick that fails or is cancelled leaves the method by its exception
\* and the snapshot consumers see is the one they saw before the tick, the
\* one of the most recent successful tick.
C3_FailedTickPublishesNothing ==
    [][TickFails => (tick'.raised # None /\ coordinator'.data = coordinator.data)]_vars

\* A tick failed after an earlier one had published a snapshot, once by a
\* configuration error.
C3_Witness ==
    /\ tick.pc = "idle"
    /\ tick.count >= 2
    /\ tick.raised # None
    /\ tick.conns # None
    /\ Val(tick.raised).kind = "ValueError"
    /\ coordinator.data # None

\* C4: for each memoized resource of the client at most one request is ever
\* issued, and a cached resource was fetched by exactly one request.
C4_OneRequestPerCatalog ==
    /\ \A e \in {"me", "homes", "people"} : requests[e] <= 1
    /\ client.homes # None => requests["homes"] = 1
    /\ client.people # None => requests["people"] = 1

\* The gather and every platform have read the catalogs.
C4_Witness ==
    /\ setup = "loaded"
    /\ \A p \in Platforms : tasks[p].at = "done"
    /\ \A t \in GatherTasks : tasks[t].at = "done"
    /\ requests["homes"] = 1
    /\ requests["people"] = 1

\* C5: the runs of _async_update_data and the requests to the
\* live-connections endpoint are one to one: each run issues one request,
\* none reuses an earlier response, none retries.
C5_OneLiveRequestPerTick ==
    /\ requests["live"] = tick.count
    /\ tick.pc = "fetching" => tick.conns = None

\* Three ticks ran, the last one failed and was not retried.
C5_Witness ==
    /\ tick.count = 3
    /\ tick.pc = "idle"
    /\ tick.raised # None
    /\ Val(tick.raised).kind = "transport"
    /\ requests["live"] = 3

\* C6: the resolution returns the home of the configured id when the
\* catalog has it, the only home when no id is configured and the catalog
\* has one home, and raises a ValueError that lists every id of the catalog
\* otherwise; what it returns is a home of the catalog. The memos of the
\* coordinator and of the client hold that home, and a refresh raises the
\* ValueError only when the resolution fails.
C6_PrimaryHome ==
    LET r == ResolveHome(api_homes, home_id)
    IN /\ (Configured /\ Val(home_id) \in CatalogIds)
            => (r.ok /\ Val(r.home).id = Val(home_id))
       /\ (~Configured /\ Len(api_homes) = 1) => (r.ok /\ Val(r.home) = api_homes[1])
       /\ Unresolvable =>
            /\ ~r.ok
            /\ r.home = None
            /\ Val(r.error).kind = "ValueError"
            /\ Len(Val(r.error).available) = Len(api_homes)
            /\ \A i \in 1..Len(api_homes) : Val(r.error).available[i] = api_homes[i].id
       /\ r.ok => \E i \in 1..Len(api_homes) : api_homes[i] = Val(r.home)
       /\ coordinator.home # None => (r.ok /\ coordinator.home = r.home)
       /\ client.home # None => (r.ok /\ client.home = r.home)
       /\ (tick.raised # None /\ Val(tick.raised).kind = "ValueError")
            => (Unresolvable /\ tick.raised = r.error)

\* A refresh raised the error of two homes and no configured id.
C6_Witness ==
    /\ home_id = None
    /\ Len(api_homes) = 2
    /\ tick.raised # None
    /\ Val(tick.raised).kind = "ValueError"
    /\ Val(tick.raised).available = <<"h1", "h2">>

\* The state the claim gives to a connection.
ClaimedState(conn) ==
    LET other == Val(conn.home)
    IN IF EffectiveId(conn) = Primary.id
       THEN IF conn.room # None THEN Val(conn.room).display_name
            ELSE <<"h", "o", "m", "e">>
       ELSE IF conn.room # None
            THEN other.display_name \o <<":", " ">> \o Val(conn.room).display_name
            ELSE other.display_name

\* C7: the state of the PersonData of every fetched connection is the room
\* name or "home" in the primary home, and the other home's name, followed
\* by ": " and the room name when a room is present, elsewhere.
C7_State ==
    Refreshed =>
        \A p \in SnapshotPersons :
            /\ p.state = ClaimedState(Fetched[p.obj])
            /\ p.home.id = EffectiveId(Fetched[p.obj])

\* The four cases in one snapshot's reach: a room of another home, and the
\* sentinel, and a room of the primary home.
C7_Witness ==
    /\ Refreshed
    /\ \E p \in SnapshotPersons : p.state = <<"L", "o", "f", "t", ":", " ", "D", "e", "n">>
    /\ \E p \in SnapshotPersons : p.state = <<"h", "o", "m", "e">>
    /\ \E p \in SnapshotPersons : p.state = <<"D", "e", "n">>

\* C8: each entry of the homes map counts the connections whose effective
\* home has its id, split by the known flag, with the name lists in input
\* order and as long as the counts; every effective home has an entry.
C8_HomeAggregates ==
    Refreshed =>
        /\ \A h \in DOMAIN Snapshot.homes :
              Counts(Snapshot.homes[h], { i \in Positions : EffectiveId(Fetched[i]) = h })
        /\ \A i \in Positions : EffectiveId(Fetched[i]) \in DOMAIN Snapshot.homes

\* Two homes are occupied, one by a known and an unknown person.
C8_Witness ==
    /\ Refreshed
    /\ Cardinality(DOMAIN Snapshot.homes) = 2
    /\ \E h \in DOMAIN Snapshot.homes :
          /\ Snapshot.homes[h].people_count = 2
          /\ Snapshot.homes[h].known_people = <<Bob.display_name>>
          /\ Snapshot.homes[h].unknown_people = <<Ann.display_name>>
          /\ Snapshot.homes[h].people = <<Ann.display_name, Bob.display_name>>

\* The positions of the connections in room r of the primary home.
InRoom(r) ==
    { i \in Positions :
        /\ EffectiveId(Fetched[i]) = Primary.id
        /\ Fetched[i].room # None
        /\ Val(Fetched[i].room).id = r }

\* C9: each entry of the rooms map counts the connections of the primary
\* home that report its room, and no other connection makes or changes an
\* entry: not one of another home that reports a room, not one without a
\* room.
C9_RoomAggregates ==
    Refreshed =>
        /\ \A r \in DOMAIN Snapshot.rooms :
              /\ Counts(Snapshot.rooms[r], InRoom(r))
              /\ InRoom(r) # {}
        /\ \A i \in Positions :
              (EffectiveId(Fetched[i]) = Primary.id /\ Fetched[i].room # None)
                 => Val(Fetched[i].room).id \in DOMAIN Snapshot.rooms

\* A room of the primary home, the same room reported from another home,
\* and a connection without room and override.
C9_Witness ==
    /\ Refreshed
    /\ Len(Fetched) = 3
    /\ \E i \in Positions :
          EffectiveId(Fetched[i]) # Primary.id /\ Fetched[i].room = Some(Den)
    /\ \E i \in Positions : Fetched[i].home = None /\ Fetched[i].room = None
    /\ "r1" \in DOMAIN Snapshot.rooms
    /\ Snapshot.rooms["r1"].people_count = 1

\* C10: the unknown-people list is the subsequence of the unknown
\* connections of the fetched list, in input order.
C10_UnknownOrder ==
    Refreshed =>
        LET u == Snapshot.unknown_people
        IN /\ Len(u) = Cardinality(Unknowns)
           /\ \A j \in 1..Len(u) :
                 /\ u[j].obj \in Unknowns
                 /\ u[j].person = Fetched[u[j].obj].person
                 /\ u[j].room = Fetched[u[j].obj].room
           /\ \A j, k \in 1..Len(u) : j < k => u[j].obj < u[k].obj

\* An unknown, a known and an unknown connection were fetched.
C10_Witness ==
    /\ Refreshed
    /\ Len(Fetched) = 3
    /\ ~Fetched[1].known /\ Fetched[2].known /\ ~Fetched[3].known
    /\ Fetched[1].person # Fetched[3].person
    /\ Len(Snapshot.unknown_people) = 2
    /\ Snapshot.unknown_people[1].person = Fetched[1].person
    /\ Snapshot.unknown_people[2].person = Fetched[3].person

\* The zone mapping the last run read: the host's zone states stay as they
\* are while no run waits.
ZoneMap == ZoneLatLongs(zones)

\* C11: every PersonData of a snapshot whose case-folded state is a key of
\* the zone mapping has that zone's latitude and longitude; every other one
\* has neither, and the refresh does not fail for it. Two PersonData of one
\* state have the same coordinates, whatever home or room gave the state.
C11_Coordinates ==
    /\ (tick.pc = "idle" /\ tick.conns # None) => tick.raised = None
    /\ Refreshed =>
          /\ \A mapping \in {ZoneMap} : \A p \in SnapshotPersons :
                \A key \in {CaseFold(p.state)} :
                    IF key \in DOMAIN mapping
                    THEN /\ p.latitude = Some(mapping[key][1])
                         /\ p.longitude = Some(mapping[key][2])
                    ELSE p.latitude = None /\ p.longitude = None
          /\ \A p, q \in SnapshotPersons :
                p.state = q.state =>
                    p.latitude = q.latitude /\ p.longitude = q.longitude

\* One snapshot holds a person in the room Den, found in the zone DEN, a
\* person at home, and a person in another home, for which there is no zone.
C11_Witness ==
    /\ Refreshed
    /\ \E p \in SnapshotPersons :
          p.state = <<"D", "e", "n">> /\ p.latitude = Some(3) /\ p.longitude = Some(4)
    /\ \E p \in SnapshotPersons :
          p.state = STATE_HOME /\ p.latitude = Some(1) /\ p.longitude = Some(2)
    /\ \E p \in SnapshotPersons :
          p.state = <<"L", "o", "f", "t">> /\ p.latitude = None /\ p.longitude = None

\* C12: two runs that were given the same connection list and read the same
\* zone mapping returned equal snapshots (aggregates, states, coordinates),
\* whatever the runs before and between them were given.
C12_SnapshotIsFunctionOfInputs ==
    \A i, j \in 1..Len(returned) :
        (/\ returned[i].conns = returned[j].conns
         /\ returned[i].zone_lat_longs = returned[j].zone_lat_longs)
            => returned[i].data = returned[j].data

\* Three runs returned: the first and the third were given the same
\* non-empty list and zone mapping, the second another list.
C12_Witness ==
    /\ Len(returned) = 3
    /\ returned[1].conns # <<>>
    /\ returned[1].conns = returned[3].conns
    /\ returned[1].zone_lat_longs = returned[3].zone_lat_longs
    /\ returned[2].conns # <<>>
    /\ returned[2].conns # returned[1].conns
    /\ returned[2].data # returned[1].data
    /\ returned[3].data = coordinator.data[1]

(***************************************************************************)
(* Area sensors (sensor.py)                                                *)
(***************************************************************************)

\* `data.homes.get(key)`, `data.rooms.get(key)`: the entry, or None.
AreaGet(areas, key) == IF key \in DOMAIN areas THEN Some(areas[key]) ELSE None

RECURSIVE Join(_)
\* ", ".join(names)
Join(names) ==
    IF names = <<>> THEN <<>>
    ELSE IF Len(names) = 1 THEN names[1]
    ELSE names[1] \o <<",", " ">> \o Join(Tail(names))

\* The sensor ids of an area; the attribute of the aggregate has the same name.
CountSensors == {"people_count", "known_people_count", "unknown_people_count"}
ListSensors == {"people", "known_people", "unknown_people"}

\* ValueFn, without the `else` of the lambdas: the value of a sensor of an
\* absent area is None.
ValueFnNoElse(sensor_id, area) ==
    IF area # None
    THEN IF sensor_id \in CountSensors
         THEN Some(Val(area)[sensor_id])
         ELSE Some(Join(Val(area)[sensor_id]))
    ELSE None

\* The value_fn of the sensor descriptions, on the looked-up aggregate: the
\* native value (Some), which the host would show as unknown if it were None.
ValueFn(sensor_id, area) ==
    IF area # None
    THEN IF sensor_id \in CountSensors
         THEN Some(Val(area)[sensor_id])
         ELSE Some(Join(Val(area)[sensor_id]))
    ELSE IF sensor_id \in CountSensors THEN Some(0) ELSE Some(<<>>)

\* WelkomAreaSensor._async_update_attrs: the native value of the sensor
\* sensor_id of the area key.
NativeValue(areas, key, sensor_id) == ValueFn(sensor_id, AreaGet(areas, key))

\* The ids of the homes and rooms no fetched connection is attributed to.
EmptyHomes ==
    { h \in CatalogIds : \A i \in Positions : EffectiveId(Fetched[i]) # h }
EmptyRooms == { r \in {Den.id} : InRoom(r) = {} }

\* C13, as stated: looking up a home id or room id without connected people
\* in a snapshot returns an aggregate with all three counts 0 and all three
\* lists empty.
C13_LookupReturnsZeroAggregate ==
    Refreshed =>
        /\ \A h \in EmptyHomes : AreaGet(Snapshot.homes, h) = Some(AreaData)
        /\ \A r \in EmptyRooms : AreaGet(Snapshot.rooms, r) = Some(AreaData)

\* C13, amended: looking up a home id or room id without connected people
\* in a snapshot finds no entry and raises no error, and every sensor of
\* such a home or room reports 0 for a count and the empty text for a list
\* of names.
C13_AbsentAreaReportsZero ==
    Refreshed =>
        /\ \A h \in EmptyHomes :
              /\ AreaGet(Snapshot.homes, h) = None
              /\ \A s \in CountSensors : NativeValue(Snapshot.homes, h, s) = Some(0)
              /\ \A s \in ListSensors : NativeValue(Snapshot.homes, h, s) = Some(<<>>)
        /\ \A r \in EmptyRooms :
              /\ AreaGet(Snapshot.rooms, r) = None
              /\ \A s \in CountSensors : NativeValue(Snapshot.rooms, r, s) = Some(0)
              /\ \A s \in ListSensors : NativeValue(Snapshot.rooms, r, s) = Some(<<>>)

\* A snapshot of two connections in the primary home, none in a room: the
\* other home of the catalog and the room are empty, and the sensors of the
\* primary home report the two people.
C13_Witness ==
    /\ Refreshed
    /\ Len(Fetched) = 2
    /\ Cabin.id \in CatalogIds
    /\ EmptyHomes # {} /\ EmptyHomes # CatalogIds
    /\ EmptyRooms = {Den.id}
    /\ NativeValue(Snapshot.homes, Primary.id, "people_count") = Some(2)
    /\ NativeValue(Snapshot.homes, Primary.id, "people")
          = Some(<<"A", "n", "n", ",", " ", "B", "o", "b">>)

\* The gather of _async_setup failed: a coroutine raised, or the timeout
\* cancelled one.
GatherFailed == \E t \in GatherTasks : tasks[t].at \in {"raised", "cancelled"}
CatalogsUnset == coordinator.homes = None /\ coordinator.people = None

\* C14: the two catalog requests of the setup are awaited together under
\* the timeout of 10. The coordinator's homes and people are set together,
\* and only when both requests have returned; when one fails, or the
\* timeout fires with one still pending, setup fails, both stay unset and
\* no snapshot is published. The timeout fires at 10 and not before, and
\* setup has then failed.
C14_GatherAllOrNothing ==
    /\ [](/\ (coordinator.homes = None) <=> (coordinator.people = None)
          /\ ~CatalogsUnset =>
                /\ \A t \in GatherTasks : tasks[t].at = "done"
                /\ setup \notin {"new", "gather"}
          /\ GatherFailed =>
                /\ setup \in {"gather", "failed"}
                /\ CatalogsUnset
                /\ coordinator.data = None
                /\ tick.count = 0
          /\ elapsed \in 0..SetupTimeout)
    /\ [][/\ (GatherFailed /\ setup = "gather") => setup' \in {"gather", "failed"}
          /\ (\E t \in GatherTasks : tasks[t].at # "cancelled" /\ tasks'[t].at = "cancelled")
                => /\ elapsed = SetupTimeout
                   /\ setup' = "failed"
                   /\ \A t \in GatherTasks : tasks'[t].at \notin AccessPoints]_vars

\* Both requests were out at the same time; the home catalog came back, the
\* person catalog did not, and the timeout ended the setup: the client has
\* the homes, the coordinator has neither catalog.
C14_Witness ==
    /\ setup = "failed"
    /\ tasks["gather_homes"].at = "done"
    /\ tasks["gather_people"].at = "cancelled"
    /\ requests["homes"] = 1 /\ requests["people"] = 1
    /\ client.homes # None
    /\ CatalogsUnset
    /\ coordinator.data = None

\* Both requests of the gather are in flight at once.
C14_WitnessConcurrent ==
    /\ setup = "gather"
    /\ \A t \in GatherTasks : tasks[t].waiting
    /\ elapsed = SetupTimeout

\* C15, as stated: once the entry is unloaded, the session of the client,
\* if one was created, is closed.
C15_SessionClosedOnUnload ==
    setup = "unloaded" => (client.session => client.closed)

(***************************************************************************)
(* Home.door_code (models.py)                                              *)
(***************************************************************************)

\* A value of type `str | int`.
IntCode(n) == [type |-> "int", value |-> n]
StrCode(text) == [type |-> "str", value |-> text]

\* The door codes a payload may carry: none, numbers, texts.
CodeValues ==
    {None, Some(IntCode(0)), Some(IntCode(7)), Some(IntCode(42)),
     Some(StrCode(<<>>)), Some(StrCode(<<"1", "2">>))}
PrefixValues == {None, Some(<<>>), Some(<<"#">>)}

\* Home.Attrs.DoorCode(prefix, code), and Home.attrs.door_code.
DoorCodePolicy(prefix, code) == [prefix |-> prefix, code |-> code]
DoorCodePolicies ==
    {None} \cup { Some(DoorCodePolicy(prefix, code)) :
                    prefix \in PrefixValues, code \in CodeValues }

\* The optional person of a call, by person.attrs.door_code.
DoorCodePersons == {None} \cup { Some([door_code |-> code]) : code \in CodeValues }

\* Python's truth value of an optional `str | int`.
TruthyCode(code) ==
    /\ code # None
    /\ IF Val(code).type = "int" THEN Val(code).value # 0 ELSE Val(code).value # <<>>

Digit(d) ==
    CASE d = 0 -> "0" [] d = 1 -> "1" [] d = 2 -> "2" [] d = 3 -> "3" [] d = 4 -> "4"
      [] d = 5 -> "5" [] d = 6 -> "6" [] d = 7 -> "7" [] d = 8 -> "8" [] d = 9 -> "9"

RECURSIVE Digits(_)
Digits(n) == IF n < 10 THEN <<Digit(n)>> ELSE Append(Digits(n \div 10), Digit(n % 10))

\* str(code), for a text and for a number that is not negative.
Str(code) == IF code.type = "int" THEN Digits(code.value) ELSE code.value

\* DoorCode, asking the person first.
DoorCodePersonFirst(policy, person) ==
    IF policy = None THEN None
    ELSE LET own == Val(policy).code
             personal == IF person = None THEN None ELSE Val(person).door_code
             code == IF TruthyCode(personal) THEN personal ELSE own
             prefix == Val(policy).prefix
         IN IF ~TruthyCode(code) THEN None
            ELSE IF prefix # None /\ Val(prefix) # <<>>
            THEN Some(Val(prefix) \o Str(Val(code)))
            ELSE Some(Str(Val(code)))

\* Home.door_code(person), on self.attrs.door_code and the optional person.
DoorCode(policy, person) ==
    IF policy = None THEN None
    ELSE LET own == Val(policy).code
             personal == IF person = None THEN None ELSE Val(person).door_code
             code == IF TruthyCode(own) THEN own ELSE personal
             prefix == Val(policy).prefix
         IN IF ~TruthyCode(code) THEN None
            ELSE IF prefix # None /\ Val(prefix) # <<>>
            THEN Some(Val(prefix) \o Str(Val(code)))
            ELSE Some(Str(Val(code)))

\* The integration is not set up: the rest of the state while the config
\* flow or a call of Home.door_code is looked at.
NotSetUp ==
    /\ home_id = None
    /\ api_homes = <<Villa>>
    /\ api_people = <<Ann, Bob>>
    /\ api_live = <<>>
    /\ zones = <<>>
    /\ client = NewClient
    /\ requests = [e \in Endpoints |-> 0]
    /\ coordinator = NewCoordinator
    /\ setup = "new"
    /\ tasks = NoTasks
    /\ tick = IdleTick
    /\ returned = <<>>
    /\ elapsed = 0
    /\ entities = NoEntities

\* A call of Home.door_code for every home policy and optional person.
InitDoor ==
    /\ NotSetUp
    /\ entries = <<>>
    /\ \E policy \in DoorCodePolicies, person \in DoorCodePersons :
          door = [NoCall EXCEPT !.home = policy, !.person = person]

DoorCodeCall ==
    /\ ~door.called
    /\ door' = [door EXCEPT !.called = TRUE, !.returned = DoorCode(door.home, door.person)]
    /\ UNCHANGED <<entities, returned, elapsed, entries, home_id, api_homes, api_people, api_live,
                   zones, client, requests, coordinator, setup, tasks, tick>>

NextDoor == DoorCodeCall

SpecDoor == InitDoor /\ [][NextDoor]_vars

\* What the claim takes for the code of the home, of the person, and for
\* the prefix: what is configured.
HomeCode == IF door.home = None THEN None ELSE Val(door.home).code
PersonalCode == IF door.person = None THEN None ELSE Val(door.person).door_code
Prefix == IF door.home = None THEN None ELSE Val(door.home).prefix
Prefixed(code) ==
    IF Prefix # None THEN Some(Val(Prefix) \o Str(Val(code))) ELSE Some(Str(Val(code)))

\* C16, as stated: the call returns the home's own code when the home has
\* one, otherwise the person's code when the person has one, with the
\* home's prefix in front when one is configured, and none exactly when
\* neither has a code.
C16_DoorCodeAsStated ==
    door.called =>
        /\ door.returned = IF HomeCode # None THEN Prefixed(HomeCode)
                           ELSE IF PersonalCode # None THEN Prefixed(PersonalCode)
                           ELSE None
        /\ (door.returned = None) <=> (HomeCode = None /\ PersonalCode = None)

\* A code counts when it is neither absent, nor 0, nor the empty text.
Counted(code) == code # None /\ Val(code) \notin {IntCode(0), StrCode(<<>>)}

\* C16, amended: for a home without door-code settings the call returns
\* none, whatever the person's code. For a home with door-code settings, a
\* code counting when it is neither absent nor 0 nor empty, the call returns
\* the home's own code when that counts, otherwise the person's code when a
\* person is given and that counts, as text and with the prefix in front
\* when the prefix is not empty; it returns none exactly when neither counts.
C16_DoorCode ==
    door.called =>
        IF door.home = None THEN door.returned = None
        ELSE LET front == IF Prefix = None THEN <<>> ELSE Val(Prefix)
             IN /\ Counted(HomeCode) =>
                      door.returned = Some(front \o Str(Val(HomeCode)))
                /\ (~Counted(HomeCode) /\ Counted(PersonalCode)) =>
                      door.returned = Some(front \o Str(Val(PersonalCode)))
                /\ (door.returned = None)
                      <=> (~Counted(HomeCode) /\ ~Counted(PersonalCode))

\* The home has settings with a prefix and no code of its own, the person
\* has the code 42: the call returned "#42".
C16_Witness ==
    /\ door.called
    /\ door.home = Some(DoorCodePolicy(Some(<<"#">>), None))
    /\ door.person = Some([door_code |-> Some(IntCode(42))])
    /\ door.returned = Some(<<"#", "4", "2">>)

(***************************************************************************)
(* Config flow (config_flow.py)                                            *)
(***************************************************************************)

\* A voluptuous schema of string fields: the required and the optional keys.
STEP_USER_DATA_SCHEMA == [required |-> {"id", "url"}, optional |-> {"home_id"}]

\* The reconfigure schema, offering the id as well.
STEP_RECONFIGURE_DATA_SCHEMA_WITH_ID ==
    [required |-> {"id", "url"}, optional |-> {"home_id"}]

STEP_RECONFIGURE_DATA_SCHEMA == [required |-> {"url"}, optional |-> {"home_id"}]

\* The host validates what the user submits against the schema of the form:
\* every required key, no key the schema does not have.
Accepts(schema, user_input) ==
    /\ schema.required \subseteq DOMAIN user_input
    /\ DOMAIN user_input \subseteq schema.required \cup schema.optional

\* What a user may submit to a form, valid or not.
IdValues == {"c1", "c2"}
UrlValues == {"u1", "u2", "u3"}
HomeIdValues == {"", "h1", "h2"}
UserInput(id, url, hid) ==
    [k \in (IF id # None THEN {"id"} ELSE {}) \cup (IF url # None THEN {"url"} ELSE {})
            \cup (IF hid # None THEN {"home_id"} ELSE {}) |->
        IF k = "id" THEN Val(id) ELSE IF k = "url" THEN Val(url) ELSE Val(hid)]
UserInputs ==
    { UserInput(id, url, hid) :
        id \in {None} \cup { Some(v) : v \in IdValues },
        url \in {None} \cup { Some(v) : v \in UrlValues },
        hid \in {None} \cup { Some(v) : v \in HomeIdValues } }

\* entry.data | data_updates
DataUpdates(data, data_updates) ==
    [k \in DOMAIN data \cup DOMAIN data_updates |->
        IF k \in DOMAIN data_updates THEN data_updates[k] ELSE data[k]]

\* No entry is configured, the integration is not set up.
InitFlow ==
    /\ NotSetUp
    /\ entries = <<>>
    /\ door = NoCall

\* async_step_user with the submitted form: the flow aborts when the unique
\* id is configured, and creates the entry otherwise.
StepUser(user_input) ==
    /\ user_input \in UserInputs
    /\ Accepts(STEP_USER_DATA_SCHEMA, user_input)
    /\ entries' = IF user_input["id"] \in DOMAIN entries
                  THEN entries
                  ELSE [k \in DOMAIN entries \cup {user_input["id"]} |->
                          IF k = user_input["id"]
                          THEN ConfigEntry(user_input["id"], user_input)
                          ELSE entries[k]]
    /\ UNCHANGED <<entities, returned, elapsed, door, home_id, api_homes, api_people, api_live,
                   zones, client, requests, coordinator, setup, tasks, tick>>

\* async_step_reconfigure of the entry unique_id with the submitted form:
\* async_update_reload_and_abort(entry, data_updates=user_input).
StepReconfigure(unique_id, user_input) ==
    /\ unique_id \in DOMAIN entries
    /\ user_input \in UserInputs
    /\ Accepts(STEP_RECONFIGURE_DATA_SCHEMA, user_input)
    /\ entries' = [entries EXCEPT ![unique_id].data = DataUpdates(@, user_input)]
    /\ UNCHANGED <<entities, returned, elapsed, door, home_id, api_homes, api_people, api_live,
                   zones, client, requests, coordinator, setup, tasks, tick>>

NextFlow ==
    \/ \E user_input \in UserInputs : StepUser(user_input)
    \/ \E unique_id \in IdValues : \E user_input \in UserInputs :
          StepReconfigure(unique_id, user_input)

SpecFlow == InitFlow /\ [][NextFlow]_vars

\* C17: the client identifier stored in a config entry is the one the entry
\* was created with, after any number of reconfigure steps; the stored data
\* has the identifier, the base URL and at most the home id, so a
\* reconfigure step changes the URL and the home id and nothing else.
C17_ClientIdFixed ==
    \A k \in DOMAIN entries :
        /\ entries[k].data["id"] = entries[k].created["id"]
        /\ entries[k].data["id"] = entries[k].unique_id
        /\ entries[k].unique_id = k
        /\ DOMAIN entries[k].data \subseteq {"id", "url", "home_id"}
        /\ DOMAIN entries[k].created \subseteq DOMAIN entries[k].data

\* Two entries; one was created without a home id and reconfigured to
\* another URL and a home id.
C17_Witness ==
    /\ DOMAIN entries = IdValues
    /\ \E k \in DOMAIN entries :
          /\ "home_id" \notin DOMAIN entries[k].created
          /\ "home_id" \in DOMAIN entries[k].data
          /\ entries[k].data["url"] # entries[k].created["url"]
          /\ entries[k].data["id"] = k

(***************************************************************************)
(* The zone mapping on every bounded list of zones                         *)
(***************************************************************************)

\* A refresh of a set-up entry, its request in flight, a known person at
\* home, for every list of at most MaxZones zones the host may have.
InitZones ==
    /\ home_id = None
    /\ api_homes = <<Villa>>
    /\ api_people = <<Ann, Bob>>
    /\ api_live = << ConnectedPerson(TRUE, Ann, None, None) >>
    /\ zones \in ZoneLists
    /\ client = [NewClient EXCEPT !.homes = Some(api_homes), !.people = Some(api_people),
                                  !.session = TRUE]
    /\ requests = [e \in Endpoints |-> IF e = "me" THEN 0 ELSE 1]
    /\ coordinator = [NewCoordinator EXCEPT !.homes = Some(api_homes),
                                            !.people = Some(api_people)]
    /\ setup = "refresh"
    /\ tasks = [t \in DOMAIN NoTasks |->
                  IF t \in GatherTasks THEN [at |-> "done", waiting |-> FALSE]
                  ELSE NoTasks[t]]
    /\ tick = [IdleTick EXCEPT !.pc = "fetching", !.count = 1]
    /\ returned = <<>>
    /\ elapsed = 0
    /\ entries = SetUpEntry(home_id)
    /\ door = NoCall
    /\ entities = NoEntities

NextZones == TickResponse

SpecZones == InitZones /\ [][NextZones]_vars

\* The zones the claim gives an entry to, and the key it gives each.
HasEntry(zone) ==
    zone.state # "unavailable" /\ zone.latitude # None /\ zone.longitude # None
ClaimedKey(zone) ==
    IF zone.entity_id = "zone.home" THEN <<"h", "o", "m", "e">> ELSE CaseFold(zone.name)
ZonesWithEntry == { i \in 1..Len(zones) : HasEntry(zones[i]) }

\* C18, as stated: the zone mapping a run read has exactly one entry for
\* every zone of the host that is not unavailable and has a latitude and a
\* longitude, whatever their values, and no other entry; the entry of the
\* home zone has the key "home", whatever the zone is called, the entry of
\* any other zone the case-folded name of the zone.
C18_ZoneMapping ==
    (tick.pc = "idle" /\ tick.zone_lat_longs # None) =>
        LET mapping == Val(tick.zone_lat_longs)
        IN /\ \A i \in ZonesWithEntry :
                 /\ ClaimedKey(zones[i]) \in DOMAIN mapping
                 /\ mapping[ClaimedKey(zones[i])]
                       = <<Val(zones[i].latitude), Val(zones[i].longitude)>>
           /\ DOMAIN mapping = { ClaimedKey(zones[i]) : i \in ZonesWithEntry }
           /\ Cardinality(DOMAIN mapping) = Cardinality(ZonesWithEntry)

\* C19: every entry of the homes map and of the rooms map of a snapshot
\* counts at least one person and belongs to a home or room to which a
\* fetched connection is attributed; the snapshot of an empty list has no
\* home, no room, no known and no unknown person.
C19_NoEmptyAggregate ==
    Refreshed =>
        /\ \A h \in DOMAIN Snapshot.homes :
              /\ Snapshot.homes[h].people_count >= 1
              /\ \E i \in Positions : EffectiveId(Fetched[i]) = h
        /\ \A r \in DOMAIN Snapshot.rooms :
              /\ Snapshot.rooms[r].people_count >= 1
              /\ \E i \in Positions :
                    /\ EffectiveId(Fetched[i]) = Primary.id
                    /\ Fetched[i].room # None
                    /\ Val(Fetched[i].room).id = r
        /\ Fetched = <<>> =>
              /\ DOMAIN Snapshot.homes = {}
              /\ DOMAIN Snapshot.rooms = {}
              /\ DOMAIN Snapshot.people = {}
              /\ Snapshot.unknown_people = <<>>

\* Every fetched connection is in another home and reports the room Den:
\* the snapshot has one home and no room.
C19_Witness ==
    /\ Refreshed
    /\ Len(Fetched) = 2
    /\ \A i \in Positions :
          EffectiveId(Fetched[i]) # Primary.id /\ Fetched[i].room = Some(Den)
    /\ DOMAIN Snapshot.homes = {Loft.id}
    /\ Snapshot.homes[Loft.id].people_count = 2
    /\ DOMAIN Snapshot.rooms = {}

\* The fetched list with every override of the primary home's id taken out.
WithoutSameIdOverride ==
    [i \in Positions |->
        IF Fetched[i].home # None /\ Val(Fetched[i].home).id = Primary.id
        THEN [Fetched[i] EXCEPT !.home = None]
        ELSE Fetched[i]]

\* A snapshot with the id of the home in place of the home of a PersonData.
HomeIds(data) ==
    [data EXCEPT
        !.people = [k \in DOMAIN @ |-> [@[k] EXCEPT !.home = @.id]],
        !.unknown_people = [j \in DOMAIN @ |-> [@[j] EXCEPT !.home = @.id]]]

\* The PersonData of the snapshot built from the i-th connection, if any.
PersonDataOf(i) == { p \in SnapshotPersons : p.obj = i }

\* C20: whether a connection is in the primary home depends on the id of
\* its home only. With an override of the primary home's id, whatever its
\* name, the state is the room name or "home", the connection is counted in
\* its room, and the presence sensor of the person is on; the snapshot is
\* the one of the list without such overrides, but for the home objects it
\* carries. With an override of another id the state is that of another
\* home, no room counts the connection, and the presence sensor is off.
C20_PrimaryHomeById ==
    Refreshed =>
        /\ \A i \in Positions :
              LET conn == Fetched[i]
                  same == conn.home # None /\ Val(conn.home).id = Primary.id
                  other == conn.home # None /\ Val(conn.home).id # Primary.id
                  shown == conn.known /\ LastOfItsPerson(i)
              IN /\ same =>
                       /\ \A p \in PersonDataOf(i) :
                             p.state = IF conn.room # None
                                       THEN Val(conn.room).display_name
                                       ELSE <<"h", "o", "m", "e">>
                       /\ conn.room # None =>
                             /\ Val(conn.room).id \in DOMAIN Snapshot.rooms
                             /\ i \in InRoom(Val(conn.room).id)
                             /\ Snapshot.rooms[Val(conn.room).id].people_count
                                   = Cardinality(InRoom(Val(conn.room).id))
                       /\ shown => IsOn(Snapshot.people, conn.person.id, Primary)
                 /\ other =>
                       /\ \A p \in PersonDataOf(i) :
                             p.state = IF conn.room # None
                                       THEN Val(conn.home).display_name \o <<":", " ">>
                                                \o Val(conn.room).display_name
                                       ELSE Val(conn.home).display_name
                       /\ conn.room # None => i \notin InRoom(Val(conn.room).id)
                       /\ shown => ~IsOn(Snapshot.people, conn.person.id, Primary)
        /\ HomeIds(Snapshot)
              = HomeIds(BuildData(WithoutSameIdOverride, coordinator.home, ZoneMap))

\* The primary home is Cabin; a known person reports the room Den with the
\* override Loft, which has Cabin's id and another name: the state is the
\* room name, the room counts the person, the presence sensor is on.
C20_Witness ==
    /\ Refreshed
    /\ coordinator.home = Some(Cabin)
    /\ \E i \in Positions :
          /\ Fetched[i] = ConnectedPerson(TRUE, Ann, Some(Loft), Some(Den))
          /\ LastOfItsPerson(i)
    /\ Snapshot.people[Ann.id].state = Den.display_name
    /\ Snapshot.people[Ann.id].home = Loft
    /\ Snapshot.rooms[Den.id].known_people = <<Ann.display_name>>
    /\ IsOn(Snapshot.people, Ann.id, Primary)

(***************************************************************************)
(* The entities on every bounded connection list                           *)
(***************************************************************************)

\* The list of the refresh before: two unknown people, one in a room.
EarlierList ==
    << ConnectedPerson(FALSE, Bob, None, Some(Den)),
       ConnectedPerson(FALSE, Ann, None, None) >>

\* A loaded entry whose last refresh fetched EarlierList, with the entities
\* the platforms added then, its next refresh waiting for the response, for
\* every connection list of at most MaxConns connections.
InitTrackers ==
    /\ \E entry \in {<<None, <<Villa>>>>, <<Some("h2"), <<Villa, Cabin>>>>} :
            home_id = entry[1] /\ api_homes = entry[2]
    /\ api_people = <<Ann, Bob>>
    /\ zones = << Zone("zone.home", <<"H", "o", "m", "e">>, "0", Some(1), Some(2)),
                  Zone("zone.den", <<"D", "E", "N">>, "0", Some(3), Some(4)) >>
    /\ \E home \in {ResolveHome(api_homes, home_id).home} :
       \E data \in {BuildData(EarlierList, home, ZoneLatLongs(zones))} :
          /\ client = [NewClient EXCEPT !.homes = Some(api_homes),
                                        !.people = Some(api_people),
                                        !.home = home, !.rooms = Some(<<>>),
                                        !.session = TRUE]
          /\ coordinator = [homes |-> Some(api_homes), people |-> Some(api_people),
                            home |-> home, data |-> Some(data)]
          /\ entities = AddEntities(
                            AddEntities(NoEntities, "device_tracker", api_people, data, home),
                            "binary_sensor", api_people, data, home)
          /\ returned = << [conns |-> EarlierList,
                            zone_lat_longs |-> ZoneLatLongs(zones), data |-> data] >>
    /\ api_live \in SeqsUpTo(ConnectedPeople, MaxConns)
    /\ requests = [e \in Endpoints |-> IF e = "me" THEN 0 ELSE IF e = "live" THEN 2 ELSE 1]
    /\ setup = "loaded"
    /\ tasks = [t \in DOMAIN NoTasks |-> [at |-> "done", waiting |-> FALSE]]
    /\ tick = [IdleTick EXCEPT !.pc = "fetching", !.count = 2]
    /\ elapsed = 0
    /\ entries = SetUpEntry(home_id)
    /\ door = NoCall

NextTrackers == TickResponse

SpecTrackers == InitTrackers /\ [][NextTrackers]_vars

\* The tracker of the unknown-people slot idx, idx counting from 0.
Slot(idx) == entities.slots[idx + 1]
Vacant(attrs) ==
    attrs = [state |-> <<"n", "o", "t", "_", "h", "o", "m", "e">>,
             latitude |-> None, longitude |-> None]

\* C21: after a refresh each of the ten slots idx = 0..9 has the state and
\* the coordinates of unknown_people[idx] when the list is that long, and
\* "not_home" without coordinates otherwise, and no refresh fails for it;
\* a slot whose position is vacant after a refresh has nothing of what it
\* had before.
C21_UnknownSlots ==
    /\ [](/\ DOMAIN entities.slots = 1..10
          /\ (tick.pc = "idle" /\ tick.conns # None) => tick.raised = None
          /\ Refreshed =>
                \A idx \in 0..9 :
                    IF idx < Len(Snapshot.unknown_people)
                    THEN /\ Slot(idx).state = Snapshot.unknown_people[idx + 1].state
                         /\ Slot(idx).latitude = Snapshot.unknown_people[idx + 1].latitude
                         /\ Slot(idx).longitude = Snapshot.unknown_people[idx + 1].longitude
                    ELSE Vacant(Slot(idx)))
    /\ [][\A idx \in 0..9 :
            (/\ ~Vacant(Slot(idx))
             /\ coordinator.data'# None
             /\ idx >= Len(coordinator.data'[1].unknown_people))
                => Vacant(entities.slots'[idx + 1])]_vars

\* The refresh before left two unknown people in the slots 0 and 1; this
\* one fetched one unknown person, in the room Den: slot 0 has the state
\* and the coordinates of the zone DEN, slot 1 is vacant.
C21_Witness ==
    /\ Refreshed
    /\ returned[1].data.unknown_people[2].state = <<"h", "o", "m", "e">>
    /\ Len(Snapshot.unknown_people) = 1
    /\ Slot(0) = [state |-> <<"D", "e", "n">>, latitude |-> Some(3), longitude |-> Some(4)]
    /\ Vacant(Slot(1))
    /\ Vacant(Slot(9))

\* The position of the last known connection of the person with the id pid.
LastKnown(pid) ==
    CHOOSE i \in Knowns : Fetched[i].person.id = pid /\ LastOfItsPerson(i)

\* C22: after a refresh the presence sensor of a catalogued person is on
\* exactly when the known-people map has an entry for the person whose home
\* has the id of the primary home; with several known connections of one
\* person in a tick the entry of the map, and with it the sensor and the
\* state of the person's tracker, is the one built from the last of them in
\* input order, while the home and room aggregates count each of them.
C22_PresenceLastWins ==
    Refreshed =>
        /\ DOMAIN entities.is_on = PersonIds(api_people)
        /\ DOMAIN entities.trackers = PersonIds(api_people)
        /\ \A pid \in PersonIds(api_people) :
              /\ entities.is_on[pid] <=>
                    /\ pid \in DOMAIN Snapshot.people
                    /\ Snapshot.people[pid].home.id = Primary.id
              /\ pid \notin DOMAIN Snapshot.people => Vacant(entities.trackers[pid])
        /\ DOMAIN Snapshot.people = KnownIds
        /\ \A pid \in KnownIds \cap PersonIds(api_people) :
              \A last \in {LastKnown(pid)} :
                 /\ Snapshot.people[pid].obj = last
                 /\ Snapshot.people[pid].person = Fetched[last].person
                 /\ Snapshot.people[pid].room = Fetched[last].room
                 /\ Snapshot.people[pid].home.id = EffectiveId(Fetched[last])
                 /\ entities.is_on[pid] <=> EffectiveId(Fetched[last]) = Primary.id
                 /\ entities.trackers[pid].state = Snapshot.people[pid].state
                 /\ entities.trackers[pid].latitude = Snapshot.people[pid].latitude
                 /\ entities.trackers[pid].longitude = Snapshot.people[pid].longitude
                 /\ entities.trackers[pid].state
                        = ClaimedState(Fetched[last])
        /\ \A h \in DOMAIN Snapshot.homes :
              Counts(Snapshot.homes[h], { i \in Positions : EffectiveId(Fetched[i]) = h })
        /\ \A r \in DOMAIN Snapshot.rooms : Counts(Snapshot.rooms[r], InRoom(r))

\* Ann is on two known connections, the first in the room Den of the
\* primary home, the last in another home: her sensor is off and her
\* tracker has the state of the last connection, while the primary home
\* and the room each count her once; Bob, on no connection, is off.
C22_Witness ==
    /\ Refreshed
    /\ Primary.id = "h1"
    /\ Fetched = << ConnectedPerson(TRUE, Ann, None, Some(Den)),
                    ConnectedPerson(TRUE, Ann, Some(Loft), None) >>
    /\ ~entities.is_on["p1"]
    /\ ~entities.is_on["p2"]
    /\ entities.trackers["p1"].state = <<"L", "o", "f", "t">>
    /\ Snapshot.homes["h1"].known_people = <<Ann.display_name>>
    /\ Snapshot.rooms["r1"].known_people_count = 1

\* The memoized resources of the client.
Memos == {"homes", "people", "connection", "home", "rooms"}

\* A run of _async_update_data ends in this step by the error of the
\* primary home.
ResolutionFails ==
    /\ tick.pc = "fetching"
    /\ tick'.pc = "idle"
    /\ tick'.raised # None
    /\ Val(tick'.raised).kind = "ValueError"

\* C23: a fetch, validation or resolution that fails leaves the memo it was
\* for unset and changes no other, so that the access after it finds the
\* memo unset and tries again; a memo that is set holds what the remote
\* service or the resolution gave, never a failure, and is not replaced or
\* cleared while the client lives. The memo of the coordinator's primary
\* home behaves the same.
C23_FailureNotCached ==
    /\ [](/\ client.homes \in {None, Some(api_homes)}
          /\ client.people \in {None, Some(api_people)}
          /\ \A memo \in {client.home, coordinator.home} :
                memo # None =>
                    /\ ResolveHome(api_homes, home_id).ok
                    /\ memo = ResolveHome(api_homes, home_id).home
          /\ tasks["gather_homes"].at = "raised" => Unset(client.homes)
          /\ tasks["gather_people"].at = "raised" => Unset(client.people))
    /\ [][/\ \A memo \in Memos :
                client[memo] # None => client'[memo] = client[memo]
          /\ coordinator.home # None => coordinator'.home = coordinator.home
          /\ \A t \in DOMAIN tasks :
                (tasks[t].at # "raised" /\ tasks'[t].at = "raised")
                    => /\ client' = client
                       /\ coordinator' = coordinator
                       /\ tasks[t].waiting => Unset(client'[Resource(tasks[t].at)])
          /\ ResolutionFails
                    => /\ client' = client
                       /\ coordinator' = coordinator
                       /\ Unset(coordinator'.home)
          /\ (/\ tick.pc = "fetching" /\ tick'.pc = "idle"
              /\ returned' # returned
              /\ Val(tick'.conns) # <<>>
              /\ Unset(coordinator.home))
                    => /\ ResolveHome(api_homes, home_id).ok
                       /\ coordinator'.home = ResolveHome(api_homes, home_id).home
         ]_vars

\* The request of the home catalog failed in the gather while the person
\* catalog was fetched: the memo of the homes is unset, the one of the
\* people is set, and one request was made for each.
C23_Witness ==
    /\ tasks["gather_homes"].at = "raised"
    /\ tasks["gather_people"].at = "done"
    /\ Unset(client.homes)
    /\ client.people = Some(api_people)
    /\ requests["homes"] = 1
    /\ requests["people"] = 1

====
